---- MODULE Spec2Model ----
(***************************************************************************)
(* chat-templates (src/src/lib.rs): rendering a conversation into a flat   *)
(* prompt string with one of three fixed jinja templates (ChatML,          *)
(* MistralInstruct, TAIDE) evaluated by minijinja.                         *)
(*                                                                         *)
(* Strings are TLA+ strings, so the rendered prompt is modelled character  *)
(* by character.  A call of apply_template is followed statement by        *)
(* statement: Environment::new, add_template, get_template, render.        *)
(***************************************************************************)
EXTENDS Integers, Sequences, FiniteSets, TLC

VARIABLES
    pc,                     \* position of the current apply_template call
    template,               \* argument `template`
    messages,               \* argument `messages`
    add_generation_prompt,  \* argument `add_generation_prompt`
    env,                    \* `env`: the minijinja Environment of the call
    tmpl,                   \* `template`: the source get_template resolved
    ctx,                    \* the context! value handed to render
    result,                 \* the Result the call returned
    first                   \* an earlier call kept for comparison: <<args, result>>

vars == <<pc, template, messages, add_generation_prompt, env, tmpl, ctx, result, first>>

---------------------------------------------------------------------------
(* Bounds of the model *)

\* longest conversation of the single-call specification
MaxLen == 3
\* longest conversation of the call-sequence specification
MaxSeqLen == 1

\* message roles: the three the templates know and one they do not
Roles == {"system", "user", "assistant", "tool"}
\* message contents, the empty one included
Contents == {"", "Hi"}

Flags == {TRUE, FALSE}

---------------------------------------------------------------------------
(* Data *)

Message == [role : Roles, content : Contents]

RECURSIVE SeqsUpTo(_, _)
SeqsUpTo(S, n) ==
    IF n = 0 THEN {<<>>}
    ELSE LET shorter == SeqsUpTo(S, n - 1)
         IN  shorter \cup {Append(s, m) : s \in {t \in shorter : Len(t) = n - 1}, m \in S}

Conversations(n) == SeqsUpTo(Message, n)

ChatTemplate == {"ChatML", "MistralInstruct", "TAIDE"}

CHATML_JINJA_TEMPLATE_NAME == "chatml"
MISTRAL_INSTRUCT_TEMPLATE_NAME == "mistral-instruct"
TAIDE_JINJA_TEMPLATE_NAME == "taide"

\* the template sources, named by their constants
CHATML_JINJA_TEMPLATE == "CHATML_JINJA_TEMPLATE"
MISTRAL_INSTRUCT_TEMPLATE == "MISTRAL_INSTRUCT_TEMPLATE"
TAIDE_JINJA_TEMPLATE == "TAIDE_JINJA_TEMPLATE"

TemplateName(t) ==
    CASE t = "ChatML" -> CHATML_JINJA_TEMPLATE_NAME
      [] t = "MistralInstruct" -> MISTRAL_INSTRUCT_TEMPLATE_NAME
      [] t = "TAIDE" -> TAIDE_JINJA_TEMPLATE_NAME

TemplateSource(t) ==
    CASE t = "ChatML" -> CHATML_JINJA_TEMPLATE
      [] t = "MistralInstruct" -> MISTRAL_INSTRUCT_TEMPLATE
      [] t = "TAIDE" -> TAIDE_JINJA_TEMPLATE

---------------------------------------------------------------------------
(* Results and errors *)

Ok(s) == [kind |-> "Ok", value |-> s, outer |-> "", inner |-> ""]
Err(outer, inner) == [kind |-> "Err", value |-> "", outer |-> outer, inner |-> inner]
NoResult == [kind |-> "None", value |-> "", outer |-> "", inner |-> ""]

\* apply_template's map_err: the outer variant of the selected template
OuterErrorWrongArm(t) ==
    CASE t = "ChatML" -> "ApplyChatMLTemplateError"
      [] t = "MistralInstruct" -> "ApplyMistralInstructTemplateError"
      [] t = "TAIDE" -> "ApplyMistralInstructTemplateError"

OuterError(t) ==
    CASE t = "ChatML" -> "ApplyChatMLTemplateError"
      [] t = "MistralInstruct" -> "ApplyMistralInstructTemplateError"
      [] t = "TAIDE" -> "ApplyTAIDETemplateError"

---------------------------------------------------------------------------
(* minijinja: environment, context, undefined values *)

\* Environment::new(): no template registered
EnvironmentNew == {}

\* env.add_template(name, source): registers (or replaces) the template;
\* fails only on a source that does not parse, and the three sources do
add_template(e, name, source) ==
    [ok |-> TRUE,
     env |-> {x \in e : x.name # name} \cup {[name |-> name, source |-> source]}]

\* env.get_template(name): the registered template, or TemplateNotFound
get_template(e, name) ==
    IF \E x \in e : x.name = name
    THEN [ok |-> TRUE, source |-> (CHOOSE x \in e : x.name = name).source]
    ELSE [ok |-> FALSE, source |-> ""]

EmptyContext ==
    [defined |-> {}, messages |-> <<>>, add_generation_prompt |-> FALSE,
     bos_token |-> "", eos_token |-> ""]

\* context! { messages, add_generation_prompt }
ChatMLContext(msgs, flag) ==
    [defined |-> {"messages", "add_generation_prompt"},
     messages |-> msgs, add_generation_prompt |-> flag,
     bos_token |-> "", eos_token |-> ""]

\* context! { messages, add_generation_prompt, bos_token, eos_token }
MistralInstructContext(msgs, flag) ==
    [defined |-> {"messages", "add_generation_prompt", "bos_token", "eos_token"},
     messages |-> msgs, add_generation_prompt |-> flag,
     bos_token |-> "<s>", eos_token |-> "</s>"]

\* a context that keeps the names of the previous render it does not set itself
TAIDEContextKept(msgs) ==
    [defined |-> ctx.defined \cup {"messages", "bos_token", "eos_token"},
     messages |-> msgs, add_generation_prompt |-> ctx.add_generation_prompt,
     bos_token |-> "<s>", eos_token |-> "</s>"]

\* a context that hands the caller's flag to the template
TAIDEContextWithFlag(msgs) ==
    [defined |-> {"messages", "add_generation_prompt", "bos_token", "eos_token"},
     messages |-> msgs, add_generation_prompt |-> add_generation_prompt,
     bos_token |-> "<s>", eos_token |-> "</s>"]

\* context! { messages, bos_token, eos_token }: apply_taide_template has no
\* flag parameter and sets no add_generation_prompt
TAIDEContext(msgs) ==
    [defined |-> {"messages", "bos_token", "eos_token"},
     messages |-> msgs, add_generation_prompt |-> FALSE,
     bos_token |-> "<s>", eos_token |-> "</s>"]

\* {% if name %}: an undefined name is false (minijinja's lenient undefined)
Truthy(c, name) ==
    /\ name \in c.defined
    /\ CASE name = "add_generation_prompt" -> c.add_generation_prompt
         [] name = "messages" -> Len(c.messages) > 0
         [] name = "bos_token" -> c.bos_token # ""
         [] name = "eos_token" -> c.eos_token # ""

\* {{ name }} of a string: an undefined name prints as the empty string
StrVar(c, name) ==
    IF name \notin c.defined THEN ""
    ELSE CASE name = "bos_token" -> c.bos_token
           [] name = "eos_token" -> c.eos_token

\* the sequence a name is bound to; iterating an undefined name iterates nothing
SeqVar(c, name) == IF name \in c.defined THEN c.messages ELSE <<>>

\* seq[i] (zero-based): out of range is undefined, not an error
ItemDefined(seq, i) == i + 1 \in DOMAIN seq

\* seq[start:]
SliceFrom(seq, start) == SubSeq(seq, start + 1, Len(seq))

RenderOk(s) == [ok |-> TRUE, out |-> s]
\* a render that fails returns the error only: the text built so far is dropped
RenderErr == [ok |-> FALSE, out |-> ""]

---------------------------------------------------------------------------
(* The three templates, as minijinja evaluates them *)

\* CHATML: the body of {% for message in messages %}
ChatMLTurn(message) ==
    "<|im_start|>" \o message.role \o "\n" \o message.content \o "<|im_end|>" \o "\n"

RECURSIVE ChatMLLoop(_)
ChatMLLoop(msgs) ==
    IF msgs = <<>> THEN ""
    ELSE ChatMLTurn(Head(msgs)) \o ChatMLLoop(Tail(msgs))

\* CHATML with the generation prompt emitted whatever the flag
ChatMLRenderAlwaysPrompt(c) ==
    RenderOk(ChatMLLoop(SeqVar(c, "messages")) \o "<|im_start|>assistant\n")

ChatMLRender(c) ==
    RenderOk(ChatMLLoop(SeqVar(c, "messages"))
             \o (IF Truthy(c, "add_generation_prompt")
                 THEN "<|im_start|>assistant\n" ELSE ""))

\* MISTRAL_INSTRUCT: the body of the loop; an unmatched role emits nothing
MistralInstructTurnNoFilter(c, message) ==
    IF message.role = "assistant"
    THEN message.content \o StrVar(c, "eos_token")
    ELSE "[INST] " \o message.content \o " [/INST]"

MistralInstructTurn(c, message) ==
    IF message.role = "user"
    THEN "[INST] " \o message.content \o " [/INST]"
    ELSE IF message.role = "assistant"
    THEN message.content \o StrVar(c, "eos_token")
    ELSE ""

RECURSIVE MistralInstructLoop(_, _)
MistralInstructLoop(c, msgs) ==
    IF msgs = <<>> THEN ""
    ELSE MistralInstructTurn(c, Head(msgs)) \o MistralInstructLoop(c, Tail(msgs))

\* MISTRAL_INSTRUCT with CHATML's trailing generation prompt block
MistralInstructRenderWithPrompt(c) ==
    RenderOk(StrVar(c, "bos_token") \o MistralInstructLoop(c, SeqVar(c, "messages"))
             \o (IF Truthy(c, "add_generation_prompt")
                 THEN "<|im_start|>assistant\n" ELSE ""))

\* MISTRAL_INSTRUCT closing the whole prompt with one more eos_token
MistralInstructRenderEosAtEnd(c) ==
    RenderOk(StrVar(c, "bos_token") \o MistralInstructLoop(c, SeqVar(c, "messages"))
             \o StrVar(c, "eos_token"))

MistralInstructRender(c) ==
    RenderOk(StrVar(c, "bos_token") \o MistralInstructLoop(c, SeqVar(c, "messages")))

\* TAIDE: {% set content = ... %}, the header goes to loop.index0 == 0 only
TAIDEContentEveryTurn(system_message, message, index0) ==
    system_message \o message.content

TAIDEContent(system_message, message, index0) ==
    IF index0 = 0 THEN system_message \o message.content ELSE message.content

TAIDETurn(c, system_message, message, index0) ==
    LET content == TAIDEContent(system_message, message, index0)
    IN  IF message.role = "user"
        THEN StrVar(c, "bos_token") \o "[INST] " \o content \o " [/INST]"
        ELSE IF message.role = "assistant"
        THEN " " \o content \o " " \o StrVar(c, "eos_token")
        ELSE ""

RECURSIVE TAIDELoop(_, _, _, _)
TAIDELoop(c, system_message, loop_messages, index0) ==
    IF loop_messages = <<>> THEN ""
    ELSE TAIDETurn(c, system_message, Head(loop_messages), index0)
         \o TAIDELoop(c, system_message, Tail(loop_messages), index0 + 1)

\* the header without the blank line that ends it
TAIDESystemMessageNoBlankLine(content) == "<<SYS>>\n" \o content \o "\n<</SYS>>\n"

\* {% set system_message = '<<SYS>>\n' + messages[0]['content'] + '\n<</SYS>>\n\n' %}
TAIDESystemMessage(content) == "<<SYS>>\n" \o content \o "\n<</SYS>>\n\n"

\* TAIDE: messages[0]['role'] on an empty conversation reads an attribute of
\* an undefined value, which minijinja refuses: the render fails
TAIDERender(c) ==
    LET msgs == SeqVar(c, "messages")
    IN  IF ~ItemDefined(msgs, 0) THEN RenderErr
        ELSE LET sys == msgs[1].role = "system"
                 loop_messages  == IF sys THEN SliceFrom(msgs, 1) ELSE msgs
                 system_message == IF sys THEN TAIDESystemMessage(msgs[1].content)
                                   ELSE ""
             IN  RenderOk(TAIDELoop(c, system_message, loop_messages, 0)
                          \o (IF Truthy(c, "add_generation_prompt")
                              THEN "<|im_start|>assistant\n" ELSE ""))

\* template.render(ctx) of the resolved source
Render(source, c) ==
    CASE source = CHATML_JINJA_TEMPLATE -> ChatMLRender(c)
      [] source = MISTRAL_INSTRUCT_TEMPLATE -> MistralInstructRender(c)
      [] source = TAIDE_JINJA_TEMPLATE -> TAIDERender(c)

\* the context each apply_*_template function builds
Context(t, msgs, flag) ==
    CASE t = "ChatML" -> ChatMLContext(msgs, flag)
      [] t = "MistralInstruct" -> MistralInstructContext(msgs, flag)
      [] t = "TAIDE" -> TAIDEContext(msgs)

\* apply_template as a function of its arguments: the three statements of the
\* selected apply_*_template in order, `?` returning the first error
apply_template(t, msgs, flag) ==
    LET added == add_template(EnvironmentNew, TemplateName(t), TemplateSource(t))
    IN  IF ~added.ok THEN Err(OuterError(t), "AddTemplateError")
        ELSE LET got == get_template(added.env, TemplateName(t))
             IN  IF ~got.ok THEN Err(OuterError(t), "GetTemplateError")
                 ELSE LET r == Render(got.source, Context(t, msgs, flag))
                      IN  IF r.ok THEN Ok(r.out)
                          ELSE Err(OuterError(t), "RenderTemplateError")

---------------------------------------------------------------------------
(* The state machine *)

NoCall == [template |-> "", messages |-> <<>>, flag |-> FALSE, result |-> NoResult]

\* a caller has entered apply_template(template, messages, add_generation_prompt)
InitOf(convs) ==
    /\ pc = "call"
    /\ template \in ChatTemplate
    /\ messages \in convs
    /\ add_generation_prompt \in Flags
    /\ env = EnvironmentNew
    /\ tmpl = ""
    /\ ctx = EmptyContext
    /\ result = NoResult
    /\ first = NoCall

\* the selected apply_*_template runs `let mut env = Environment::new()`
NewEnvironment ==
    /\ pc = "call"
    /\ pc' = "add"
    /\ env' = EnvironmentNew
    /\ UNCHANGED <<template, messages, add_generation_prompt, tmpl, ctx, result, first>>

\* env.add_template(NAME, SOURCE).map_err(AddTemplateError)?
AddTemplate ==
    /\ pc = "add"
    /\ LET r == add_template(env, TemplateName(template), TemplateSource(template))
       IN  IF r.ok
           THEN /\ env' = r.env
                /\ pc' = "get"
                /\ UNCHANGED result
           ELSE /\ result' = Err(OuterError(template), "AddTemplateError")
                /\ pc' = "done"
                /\ UNCHANGED env
    /\ UNCHANGED <<template, messages, add_generation_prompt, tmpl, ctx, first>>

\* env.get_template(NAME).map_err(GetTemplateError)?
GetTemplate ==
    /\ pc = "get"
    /\ LET r == get_template(env, TemplateName(template))
       IN  IF r.ok
           THEN /\ tmpl' = r.source
                /\ pc' = "render"
                /\ UNCHANGED result
           ELSE /\ result' = Err(OuterError(template), "GetTemplateError")
                /\ pc' = "done"
                /\ UNCHANGED tmpl
    /\ UNCHANGED <<template, messages, add_generation_prompt, env, ctx, first>>

\* template.render(context! {...}).map_err(RenderTemplateError)
RenderTemplate ==
    /\ pc = "render"
    /\ ctx' = Context(template, messages, add_generation_prompt)
    /\ LET r == Render(tmpl, ctx')
       IN  result' = IF r.ok THEN Ok(r.out)
                     ELSE Err(OuterError(template), "RenderTemplateError")
    /\ pc' = "done"
    /\ UNCHANGED <<template, messages, add_generation_prompt, env, tmpl, first>>

\* the call returns its Result; env and the template borrowed from it are dropped
Return ==
    /\ pc = "done"
    /\ pc' = "idle"
    /\ env' = EnvironmentNew
    /\ tmpl' = ""
    /\ UNCHANGED <<template, messages, add_generation_prompt, ctx, result, first>>

Init == InitOf(Conversations(MaxLen))

Next ==
    \/ NewEnvironment
    \/ AddTemplate
    \/ GetTemplate
    \/ RenderTemplate
    \/ Return

\* one call of apply_template on any conversation of up to MaxLen messages
Spec == Init /\ [][Next]_vars

---------------------------------------------------------------------------
(* Sequences of calls *)

SeqMessage == {[role |-> "user", content |-> "Hi"], [role |-> "system", content |-> "Hi"]}

SeqConversations == SeqsUpTo(SeqMessage, MaxSeqLen)

\* the caller calls apply_template again
Call(t, msgs, flag) ==
    /\ pc = "idle"
    /\ pc' = "call"
    /\ template' = t
    /\ messages' = msgs
    /\ add_generation_prompt' = flag
    /\ result' = NoResult
    /\ UNCHANGED <<env, tmpl, ctx, first>>

\* the call returns and the caller keeps its arguments and Result to compare
\* a later call with
ReturnKept ==
    /\ pc = "done"
    /\ pc' = "idle"
    /\ env' = EnvironmentNew
    /\ tmpl' = ""
    /\ first' = [template |-> template, messages |-> messages,
                 flag |-> add_generation_prompt, result |-> result]
    /\ UNCHANGED <<template, messages, add_generation_prompt, ctx, result>>

InitSeq == InitOf(SeqConversations)

NextSeq ==
    \/ \E t \in ChatTemplate, msgs \in SeqConversations, flag \in Flags :
          Call(t, msgs, flag)
    \/ NewEnvironment
    \/ AddTemplate
    \/ GetTemplate
    \/ RenderTemplate
    \/ Return
    \/ ReturnKept

\* any number of calls of apply_template, one after the other
SpecSeq == InitSeq /\ [][NextSeq]_vars

---------------------------------------------------------------------------
(* Properties *)

Done == pc = "done"

GenerationPrompt == "<|im_start|>assistant\n"

IsPrefix(p, s) == Len(p) <= Len(s) /\ SubSeq(s, 1, Len(p)) = p

EndsWith(s, suffix) ==
    Len(suffix) <= Len(s) /\ SubSeq(s, Len(s) - Len(suffix) + 1, Len(s)) = suffix

\* the number of places of s where h starts
Occurrences(h, s) ==
    Cardinality({i \in 1..(Len(s) - Len(h) + 1) : SubSeq(s, i, i + Len(h) - 1) = h})

\* the segments of a sequence of strings, one after the other
RECURSIVE Join(_)
Join(segs) ==
    IF Len(segs) = 0 THEN ""
    ELSE Join(SubSeq(segs, 1, Len(segs) - 1)) \o segs[Len(segs)]

\* s without its i-th element
RemoveAt(s, i) == SubSeq(s, 1, i - 1) \o SubSeq(s, i + 1, Len(s))

(* C1 *)
ExpectedChatML(msgs, flag) ==
    Join([i \in 1..Len(msgs) |->
            "<|im_start|>" \o msgs[i].role \o "\n" \o msgs[i].content
            \o "<|im_end|>" \o "\n"])
    \o (IF flag THEN "<|im_start|>assistant\n" ELSE "")

\* C1: a ChatML call succeeds on every conversation, the empty one included,
\* and returns the turns '<|im_start|>' role '\n' content '<|im_end|>' '\n' in
\* input order, followed by '<|im_start|>assistant\n' exactly when the flag is
\* set; the empty conversation gives '' or just that suffix.
C1_ChatMLOutput ==
    (Done /\ template = "ChatML") =>
        /\ result = Ok(ExpectedChatML(messages, add_generation_prompt))
        /\ messages = <<>> =>
              result.value = (IF add_generation_prompt THEN GenerationPrompt ELSE "")

C1_Witness ==
    /\ Done /\ template = "ChatML" /\ add_generation_prompt
    /\ Len(messages) = 3
    /\ messages[1].role = "system" /\ messages[2].role = "user"
    /\ messages[2].content = "Hi" /\ messages[3].content = ""
    /\ result.kind = "Ok"

(* C2 *)
ExpectedMistralSegment(m) ==
    CASE m.role = "user" -> "[INST] " \o m.content \o " [/INST]"
      [] m.role = "assistant" -> m.content \o "</s>"
      [] OTHER -> ""

\* C2: a MistralInstruct call returns '<s>' and then one segment per message in
\* input order: '[INST] ' content ' [/INST]' for user, content '</s>' for
\* assistant, nothing for another role; removing a message of another role
\* leaves the output unchanged, and a conversation that ends on a user message
\* ends with ' [/INST]' and no '</s>' after it.
C2_MistralOutput ==
    (Done /\ template = "MistralInstruct") =>
        /\ result = Ok("<s>" \o Join([i \in 1..Len(messages) |->
                                         ExpectedMistralSegment(messages[i])]))
        /\ \A i \in 1..Len(messages) :
              messages[i].role \notin {"user", "assistant"} =>
                 apply_template("MistralInstruct", RemoveAt(messages, i),
                                add_generation_prompt) = result
        /\ (Len(messages) > 0 /\ messages[Len(messages)].role = "user") =>
              /\ EndsWith(result.value, " [/INST]")
              /\ ~EndsWith(result.value, "</s>")

C2_Witness ==
    /\ Done /\ template = "MistralInstruct"
    /\ Len(messages) = 3
    /\ messages[1].role = "assistant" /\ messages[2].role = "tool"
    /\ messages[2].content = "Hi" /\ messages[3].role = "user"
    /\ result.kind = "Ok"

(* C3 *)
ExpectedTAIDEHeader(msgs) ==
    IF msgs[1].role = "system"
    THEN "<<SYS>>\n" \o msgs[1].content \o "\n<</SYS>>\n\n"
    ELSE ""

ExpectedTAIDELoopMessages(msgs) ==
    IF msgs[1].role = "system" THEN SubSeq(msgs, 2, Len(msgs)) ELSE msgs

ExpectedTAIDESegment(m, content) ==
    CASE m.role = "user" -> "<s>[INST] " \o content \o " [/INST]"
      [] m.role = "assistant" -> " " \o content \o " </s>"
      [] OTHER -> ""

ExpectedTAIDE(msgs) ==
    LET loop == ExpectedTAIDELoopMessages(msgs)
    IN  Join([i \in 1..Len(loop) |->
                ExpectedTAIDESegment(loop[i],
                    IF i = 1 THEN ExpectedTAIDEHeader(msgs) \o loop[i].content
                    ELSE loop[i].content)])

\* C3: a TAIDE call on a non-empty conversation returns one segment per loop
\* message in order, the loop messages being messages[1:] with the header
\* '<<SYS>>\n' content '\n<</SYS>>\n\n' when the first role is system and all
\* messages with an empty header otherwise; the first loop message has the
\* header in front of its content; user gives '<s>[INST] ' content ' [/INST]',
\* assistant gives ' ' content ' </s>', another role nothing.
C3_TAIDEOutput ==
    (Done /\ template = "TAIDE" /\ Len(messages) > 0) =>
        result = Ok(ExpectedTAIDE(messages))

C3_Witness ==
    /\ Done /\ template = "TAIDE"
    /\ Len(messages) = 3
    /\ messages[1].role = "system" /\ messages[1].content = "Hi"
    /\ messages[2].role = "user" /\ messages[3].role = "assistant"
    /\ result.kind = "Ok"

C5_EmptyNeverFails ==
    (Done /\ messages = <<>>) => result.kind = "Ok"

(* C6 *)
SecondIsRendered(msgs) ==
    Len(msgs) >= 2 /\ msgs[2].role \in {"user", "assistant"}

\* what TAIDE puts in front of the content of a rendered first loop message
TAIDEOpening(role) == IF role = "user" THEN "<s>[INST] " ELSE " "

\* C6 as stated: with a leading system message and a message after it, the
\* header appears exactly once in the TAIDE output, directly in front of the
\* second message's content.
C6_HeaderExactlyOnce ==
    (Done /\ template = "TAIDE" /\ Len(messages) >= 2
          /\ messages[1].role = "system") =>
        /\ result.kind = "Ok"
        /\ Occurrences(ExpectedTAIDEHeader(messages), result.value) = 1
        /\ \E i \in 1..Len(result.value) :
              IsPrefix(ExpectedTAIDEHeader(messages) \o messages[2].content,
                       SubSeq(result.value, i, Len(result.value)))

\* C6 amended: with a leading system message, the header appears exactly once,
\* directly in front of the second message's content at the start of that
\* message's segment, when the second message exists and is a user or
\* assistant message; otherwise the header does not appear at all.  No later
\* message gets a header.
C6_HeaderPlacement ==
    (Done /\ template = "TAIDE" /\ Len(messages) > 0
          /\ messages[1].role = "system") =>
        LET header == ExpectedTAIDEHeader(messages)
        IN  /\ result.kind = "Ok"
            /\ IF SecondIsRendered(messages)
               THEN /\ Occurrences(header, result.value) = 1
                    /\ IsPrefix(TAIDEOpening(messages[2].role) \o header
                                   \o messages[2].content,
                                result.value)
               ELSE Occurrences(header, result.value) = 0

C6_Witness ==
    /\ Done /\ template = "TAIDE"
    /\ Len(messages) = 3
    /\ messages[1].role = "system"
    /\ messages[2].role = "assistant" /\ messages[3].role = "user"
    /\ Occurrences(ExpectedTAIDEHeader(messages), result.value) = 1

C8_Deterministic ==
    (Done /\ first.template = template /\ first.messages = messages
          /\ first.flag = add_generation_prompt) =>
        result = first.result

\* a TAIDE call repeats a call the caller kept
C8_Witness ==
    /\ Done /\ template = "TAIDE" /\ Len(messages) = 1
    /\ first.template = template /\ first.messages = messages
    /\ first.flag = add_generation_prompt
    /\ first.result.kind = "Ok"
    /\ result = first.result

(* C9 *)
ExpectedOuter ==
    CASE template = "ChatML" -> "ApplyChatMLTemplateError"
      [] template = "MistralInstruct" -> "ApplyMistralInstructTemplateError"
      [] template = "TAIDE" -> "ApplyTAIDETemplateError"

\* the statement the call had reached when it ended
ReachedStep ==
    IF ~(\E x \in env : x.name = TemplateName(template)) THEN "AddTemplateError"
    ELSE IF tmpl = "" THEN "GetTemplateError"
    ELSE "RenderTemplateError"

\* C9: a finished call holds a prompt or a typed failure and nothing else; a
\* failure carries no text, names the statement the call stopped at
\* (add -> AddTemplateError, get -> GetTemplateError, render ->
\* RenderTemplateError) and is wrapped in the outer variant of the selected
\* template; the template rendered is the selected one.
C9_TypedFailure ==
    Done =>
        /\ result.kind \in {"Ok", "Err"}
        /\ result.kind = "Ok" =>
              /\ result.outer = "" /\ result.inner = ""
              /\ tmpl = TemplateSource(template)
              /\ ctx.messages = messages
        /\ result.kind = "Err" =>
              /\ result.value = ""
              /\ result.outer = ExpectedOuter
              /\ result.inner = ReachedStep
              /\ ReachedStep = "AddTemplateError" => tmpl = "" /\ ctx = EmptyContext
              /\ ReachedStep = "GetTemplateError" => ctx = EmptyContext

C9_Witness ==
    /\ Done /\ template = "TAIDE" /\ messages = <<>>
    /\ result = Err("ApplyTAIDETemplateError", "RenderTemplateError")

\* C10: with the flag unset, the call on every non-empty prefix of the
\* conversation succeeds and returns a string prefix of what the call on the
\* whole conversation returns.
C10_PrefixExtends ==
    (Done /\ ~add_generation_prompt) =>
        \A k \in 1..Len(messages) :
            LET p == apply_template(template, SubSeq(messages, 1, k), FALSE)
            IN  /\ p.kind = "Ok"
                /\ result.kind = "Ok"
                /\ IsPrefix(p.value, result.value)

C10_Witness ==
    /\ Done /\ ~add_generation_prompt /\ template = "MistralInstruct"
    /\ Len(messages) = 3
    /\ messages[1].role = "user" /\ messages[2].role = "assistant"
    /\ messages[3].role = "user" /\ messages[3].content = "Hi"
    /\ result.kind = "Ok"

====
